---- MODULE Spec2Model ----
\* PDF-Table-Extractor (app/main.py): the highlight-colour mapping engine, the OCR
\* table reconstruction and the per-page selection between them.
\*
\* Conventions
\*   - An optional Python value (None, or a key dict.get() does not find) is the
\*     empty sequence <<>>; a present value v is <<v>>.
\*   - An optional colour code (Optional[str]) is the string None or "FFrrggbb".
\*   - A colour component c in [0,1] is the numerator n of n / ColorDen.
\*   - Coordinates are integers; float(x) keeps their value.
EXTENDS Integers, Sequences, FiniteSets, TLC

VARIABLES
    pc,         \* position: "call"/"return" of one function call, "loop"/"done" of parse_pdf_tables
    arg,        \* the arguments of the function under call
    ret,        \* its return value
    has_ocr,    \* the module flags <<_HAS_PYTESSERACT, _HAS_TESSERACT>>
    page_idx,   \* parse_pdf_tables: the 1-based index of the next page
    results,    \* parse_pdf_tables: the result list
    visited     \* history: for each page processed, what detection saw and which path ran

vars == <<pc, arg, ret, has_ocr, page_idx, results, visited>>

None == "None"

\* ------------------------------------------------------------------ bounds
MaxRows == 2        \* rows of an extracted table
MaxCols == 2        \* columns of an extracted table
MaxRegions == 2     \* page rectangles of one page
MaxWords == 4       \* OCR tokens of one page image
MaxPages == 2       \* pages of one document
MaxTables == 2      \* vector tables of one page

\* Colour components are multiples of 1/8: dyadic, so c * 255 is exact in binary
\* floating point and int() of it is the integer part of the exact product.
ColorDen == 2 ^ 3

\* ------------------------------------------------------------------ helpers
Max2(a, b) == IF a >= b THEN a ELSE b
Min2(a, b) == IF a <= b THEN a ELSE b

RECURSIVE SeqMax(_)
SeqMax(s) == IF Len(s) = 1 THEN s[1] ELSE Max2(s[1], SeqMax(Tail(s)))

RECURSIVE SeqMin(_)
SeqMin(s) == IF Len(s) = 1 THEN s[1] ELSE Min2(s[1], SeqMin(Tail(s)))

Repeat(v, n) == [i \in 1..n |-> v]

\* Sequences of length 0..n over the set S.
SeqsUpTo(S, n) == UNION {[1..k -> S] : k \in 0..n}

\* ---------------------------------------------------------- colour utilities
HexDigits == <<"0", "1", "2", "3", "4", "5", "6", "7",
               "8", "9", "A", "B", "C", "D", "E", "F">>

\* f"{v:02X}" for 0 <= v <= 255
Hex02X(v) == HexDigits[(v \div 16) + 1] \o HexDigits[(v % 16) + 1]

\* f"FF{r:02X}{g:02X}{b:02X}"
FormatARGB(r, g, b) == "FF" \o Hex02X(r) \o Hex02X(g) \o Hex02X(b)

\* int(c * 255) for a component c = n / ColorDen with n >= 0: int() truncates.
IntTimes255(n) == (n * 255) \div ColorDen

\* _color_to_hex(color): color is an optional sequence of components.
\* A 2-element sequence fails to unpack into r, g, b and the except returns None.
_color_to_hex(color) ==
    IF color = <<>> \/ color[1] = <<>> THEN None
    ELSE LET c == color[1] IN
         IF Len(c) = 1
           THEN FormatARGB(IntTimes255(c[1]), IntTimes255(c[1]), IntTimes255(c[1]))
         ELSE IF Len(c) = 2 THEN None
         ELSE FormatARGB(IntTimes255(c[1]), IntTimes255(c[2]), IntTimes255(c[3]))

\* -------------------------------------------------------- geometry utilities
\* Python's `a or b` on two optional numbers: a when a is truthy (present and not 0).
OrNum(a, b) == IF a # <<>> /\ a[1] # 0 THEN a ELSE b

\* Python's `a or b` on two optional colours: a when a is a non-empty sequence.
OrColor(a, b) == IF a # <<>> /\ a[1] # <<>> THEN a ELSE b

\* `x if x is not None else y`
IfNotNone(a, b) == IF a # <<>> THEN a ELSE b

\* str.lower() on the annotation subtypes of the model.
Lower(s) ==
    CASE s = "Highlight" -> "highlight"
      [] s = "HIGHLIGHT" -> "highlight"
      [] s = "Link" -> "link"
      [] OTHER -> s

\* The dict built for a highlight annotation (it has no y0, y1, stroke_color keys).
AnnotRect(annot) ==
    [x0 |-> annot.x0, x1 |-> annot.x1,
     top |-> OrNum(annot.top, annot.y1),
     bottom |-> OrNum(annot.bottom, annot.y0),
     y0 |-> <<>>, y1 |-> <<>>,
     non_stroking_color |-> annot.color, stroke_color |-> <<>>]

RECURSIVE HighlightAnnots(_)
HighlightAnnots(annots) ==
    IF annots = <<>> THEN <<>>
    ELSE (IF Lower(Head(annots).subtype) = "highlight"
            THEN <<AnnotRect(Head(annots))>> ELSE <<>>)
         \o HighlightAnnots(Tail(annots))

IsColored(rect) ==
    OrColor(rect.non_stroking_color, rect.stroke_color) # <<>>
    /\ OrColor(rect.non_stroking_color, rect.stroke_color)[1] # <<>>

\* _rectangles_with_color(page): the coloured page rectangles, then the
\* highlight annotations.
_rectangles_with_color(page) ==
    SelectSeq(page.rects, IsColored) \o HighlightAnnots(page.annots)

\* _normalize_box(obj): <<>> for None, else <<box>>.
_normalize_box(obj) ==
    LET x0 == obj.x0
        x1 == obj.x1
        top == IfNotNone(obj.top, obj.y1)
        bottom == IfNotNone(obj.bottom, obj.y0)
    IN IF x0 = <<>> \/ x1 = <<>> \/ top = <<>> \/ bottom = <<>> THEN <<>>
       ELSE << [x0 |-> x0[1], x1 |-> x1[1], top |-> top[1], bottom |-> bottom[1]] >>

\* (mutant) touching edges count as overlapping
_boxes_overlap_inclusive(a, b) ==
    ~(a.x1 < b.x0 \/ a.x0 > b.x1 \/ a.top > b.bottom \/ a.bottom < b.top)

\* _boxes_overlap(a, b)
_boxes_overlap(a, b) ==
    ~(a.x1 <= b.x0 \/ a.x0 >= b.x1 \/ a.top >= b.bottom \/ a.bottom <= b.top)

\* ---------------------------------------------------- highlight mapping engine
\* A row/column metadata entry is [kind, v]: "bbox" (an object with a .bbox, v the
\* 4-tuple), "seq" (a list/tuple, v its elements), "num" (an int/float, v = <<value>>)
\* or "other" (anything else, v = <<>>).  Indexes are 1-based here, 0-based in the source.

\* table_rows / table_cols as _map_highlights reads them off the table.
TableRows(table) == table.rows
TableCols(table) == IF table.cols # <<>> THEN table.cols[1] ELSE table.columns

\* _row_bounds(idx): <<>> for None, else << <<top, bottom>> >>.
_row_bounds(table_rows, idx) ==
    IF idx > Len(table_rows) THEN <<>>
    ELSE LET row_obj == table_rows[idx] IN
         IF row_obj.kind = "bbox" THEN << <<row_obj.v[2], row_obj.v[4]>> >>
         ELSE IF row_obj.kind = "seq" /\ Len(row_obj.v) >= 4
           THEN << <<row_obj.v[2], row_obj.v[4]>> >>
         ELSE IF row_obj.kind = "num" /\ idx + 1 <= Len(table_rows)
                 /\ table_rows[idx + 1].kind = "num"
           THEN LET top == row_obj.v[1]
                    bottom == table_rows[idx + 1].v[1]
                IN IF top <= bottom THEN << <<top, bottom>> >> ELSE << <<bottom, top>> >>
         ELSE <<>>

\* _col_bounds(idx): <<>> for None, else << <<x0, x1>> >>.
_col_bounds(table_cols, idx) ==
    IF idx > Len(table_cols) THEN <<>>
    ELSE LET col_obj == table_cols[idx] IN
         IF col_obj.kind = "bbox" THEN << <<col_obj.v[1], col_obj.v[3]>> >>
         ELSE IF col_obj.kind = "seq" /\ Len(col_obj.v) >= 4
           THEN << <<col_obj.v[1], col_obj.v[3]>> >>
         ELSE IF col_obj.kind = "num" /\ idx + 1 <= Len(table_cols)
                 /\ table_cols[idx + 1].kind = "num"
           THEN LET x0 == col_obj.v[1]
                    x1 == table_cols[idx + 1].v[1]
                IN IF x0 <= x1 THEN << <<x0, x1>> >> ELSE << <<x1, x0>> >>
         ELSE <<>>

\* (mutant) no break: the last matching rect wins
RECURSIVE ScanRects_last(_, _)
ScanRects_last(cell_box, rects) ==
    IF rects = <<>> THEN None
    ELSE LET rect == rects[Len(rects)]
             rcolor == _color_to_hex(OrColor(rect.non_stroking_color, rect.stroke_color))
             rect_box == _normalize_box(rect)
         IN IF rcolor # None /\ rect_box # <<>> /\ _boxes_overlap(cell_box, rect_box[1])
              THEN rcolor
              ELSE ScanRects_last(cell_box, SubSeq(rects, 1, Len(rects) - 1))

\* The `for rect in rects` scan of one cell: the colour of the first rect whose
\* colour resolves and whose box overlaps the cell, None when the scan ends.
RECURSIVE ScanRects(_, _)
ScanRects(cell_box, rects) ==
    IF rects = <<>> THEN None
    ELSE LET rect == Head(rects)
             rcolor == _color_to_hex(OrColor(rect.non_stroking_color, rect.stroke_color))
             rect_box == _normalize_box(rect)
         IN IF rcolor # None /\ rect_box # <<>> /\ _boxes_overlap(cell_box, rect_box[1])
              THEN rcolor
              ELSE ScanRects(cell_box, Tail(rects))

MaxRowLen(data) == SeqMax([i \in 1..Len(data) |-> Len(data[i])])

\* (mutant) break instead of continue: an unresolved row ends the row loop
MapCells_break(data, table_rows, table_cols, rects) ==
    [r_idx \in 1..Len(data) |->
        [c_idx \in 1..MaxRowLen(data) |->
            LET bounds == _row_bounds(table_rows, r_idx)
                cbounds == _col_bounds(table_cols, c_idx)
            IN IF c_idx > Len(data[r_idx]) \/ cbounds = <<>>
                  \/ \E r \in 1..r_idx : _row_bounds(table_rows, r) = <<>>
                 THEN None
                 ELSE ScanRects([x0 |-> cbounds[1][1], x1 |-> cbounds[1][2],
                                 top |-> bounds[1][1], bottom |-> bounds[1][2]],
                                rects)]]

\* The nested loops over data: row r_idx is skipped (continue) when its bounds do
\* not resolve, cell c_idx of it when the column's do not; only the cells the row
\* holds (c_idx <= len(row_cells)) are visited.
MapCells(data, table_rows, table_cols, rects) ==
    [r_idx \in 1..Len(data) |->
        [c_idx \in 1..MaxRowLen(data) |->
            LET bounds == _row_bounds(table_rows, r_idx)
                cbounds == _col_bounds(table_cols, c_idx)
            IN IF c_idx > Len(data[r_idx]) \/ bounds = <<>> \/ cbounds = <<>>
                 THEN None
                 ELSE ScanRects([x0 |-> cbounds[1][1], x1 |-> cbounds[1][2],
                                 top |-> bounds[1][1], bottom |-> bounds[1][2]],
                                rects)]]

\* _map_highlights(table, page)
_map_highlights(table, page) ==
    LET data == table.data
        rects == _rectangles_with_color(page)
    IN IF data = <<>> THEN <<>>
       ELSE IF rects = <<>>
         THEN [r \in 1..Len(data) |-> Repeat(None, MaxRowLen(data))]
       ELSE MapCells(data, TableRows(table), TableCols(table), rects)

\* --------------------------------------------------- pixel colour estimation
\* A rendered page image is [width, height, stripe, ink, paper]: the pixel columns
\* x < stripe have the colour ink, the others the colour paper (<<r, g, b>> in
\* 0..255), so the sum of a channel over a crop is exact.

\* _pad_bbox(box, pad, max_width, max_height)
_pad_bbox(box, pad, max_width, max_height) ==
    [x0 |-> Max2(0, box.x0 - pad),
     top |-> Max2(0, box.top - pad),
     x1 |-> Min2(max_width, box.x1 + pad),
     bottom |-> Min2(max_height, box.bottom + pad)]

\* _estimate_highlight_color(image, bbox): the crop holds n = w * h pixels, inkw
\* columns of them ink; with S the channel sums, saturation > 0.25 is
\* 4 * (maxS - minS) > maxS, brightness > 120 is sum(S) > 360 * n, and int(mean)
\* is S \div n.
_estimate_highlight_color(image, bbox) ==
    LET padded == _pad_bbox(bbox, 2, image.width, image.height)
        w == padded.x1 - padded.x0
        h == padded.bottom - padded.top
        inkw == Max2(0, Min2(padded.x1, image.stripe) - padded.x0)
        S == [ch \in 1..3 |-> h * ((inkw * image.ink[ch]) + ((w - inkw) * image.paper[ch]))]
        n == w * h
        maxS == SeqMax(S)
        minS == SeqMin(S)
    IN IF w <= 0 \/ h <= 0 THEN None
       ELSE IF maxS # 0 /\ 4 * (maxS - minS) > maxS /\ S[1] + S[2] + S[3] > 360 * n
         THEN FormatARGB(S[1] \div n, S[2] \div n, S[3] \div n)
       ELSE None

\* ------------------------------------------------ OCR table reconstruction
\* Tesseract's output is a sequence of tokens [text, conf, left, top, width,
\* height]; conf is <<>> when it does not parse as a number.

\* str.strip() on the token texts of the model (word texts hold no whitespace).
Strip(text) == IF text = " " THEN "" ELSE text

\* " ".join(texts).strip()
RECURSIVE JoinSpace(_)
JoinSpace(texts) ==
    IF texts = <<>> THEN ""
    ELSE IF Len(texts) = 1 THEN texts[1]
    ELSE texts[1] \o " " \o JoinSpace(Tail(texts))

\* The `words` list: the tokens with a non-empty text and a confidence >= 40.
RECURSIVE RetainedWords(_)
RetainedWords(data) ==
    IF data = <<>> THEN <<>>
    ELSE LET tok == Head(data)
             text == Strip(tok.text)
             conf == IF tok.conf = <<>> THEN -1 ELSE tok.conf[1]
         IN (IF text = "" \/ conf < 40 THEN <<>>
             ELSE << [text |-> text, x0 |-> tok.left, x1 |-> tok.left + tok.width,
                      top |-> tok.top, bottom |-> tok.top + tok.height] >>)
            \o RetainedWords(Tail(data))

\* sorted(words, key=...) / list.sort(key=...): stable, ascending in field f.
InsertBy(sorted, w, f) ==
    LET p == Cardinality({i \in 1..Len(sorted) : sorted[i][f] <= w[f]})
    IN SubSeq(sorted, 1, p) \o <<w>> \o SubSeq(sorted, p + 1, Len(sorted))

RECURSIVE SortedBy(_, _)
SortedBy(words, f) ==
    IF words = <<>> THEN <<>>
    ELSE InsertBy(SortedBy(SubSeq(words, 1, Len(words) - 1), f), words[Len(words)], f)

RECURSIVE SortInts(_)
SortInts(s) ==
    IF s = <<>> THEN <<>>
    ELSE LET rest == SortInts(SubSeq(s, 1, Len(s) - 1))
             v == s[Len(s)]
             p == Cardinality({i \in 1..Len(rest) : rest[i] <= v})
         IN SubSeq(rest, 1, p) \o <<v>> \o SubSeq(rest, p + 1, Len(rest))

\* Twice statistics.median(values) of a non-empty list (the median of an even
\* number of values is the mean of the two middle ones).
Median2(values) ==
    LET srt == SortInts(values)
        n == Len(srt)
    IN IF n % 2 = 1 THEN 2 * srt[(n + 1) \div 2]
       ELSE srt[n \div 2] + srt[(n \div 2) + 1]

\* Ten times row_threshold = max(25, median_height * 0.8).
RowThreshold10(words) ==
    Max2(250, 4 * Median2([i \in 1..Len(words) |-> words[i].bottom - words[i].top]))

\* (mutant) median_gap is always the default 25, whatever the row's gaps
GapThreshold10_default(row_words) == Max2(180, Min2(1200, 4 * 50))

\* Ten times gap_threshold = max(18, min(120, median_gap * 0.8)) of a row sorted
\* by x0; median_gap is 25 when the row has no gaps.
GapThreshold10(row_words) ==
    LET gaps == [i \in 1..(Len(row_words) - 1) |->
                    Max2(0, row_words[i + 1].x0 - row_words[i].x1)]
        median_gap2 == IF gaps = <<>> THEN 50 ELSE Median2(gaps)
    IN Max2(180, Min2(1200, 4 * median_gap2))

\* (mutant) the row is anchored on the previous word instead of its first word
RECURSIVE GroupRows_prev(_, _, _, _)
GroupRows_prev(words_sorted, current_row, current_top, threshold10) ==
    IF words_sorted = <<>> THEN <<current_row>>
    ELSE LET word == Head(words_sorted) IN
         IF 10 * (word.top - current_top) > threshold10
           THEN <<current_row>>
                \o GroupRows_prev(Tail(words_sorted), <<word>>, word.top, threshold10)
           ELSE GroupRows_prev(Tail(words_sorted), Append(current_row, word), word.top,
                               threshold10)

\* The loop `for word in words_sorted` with its final flush: the word lists handed
\* to _flush_row, in order.  current_top starts as the first word's top.
RECURSIVE GroupRows(_, _, _, _)
GroupRows(words_sorted, current_row, current_top, threshold10) ==
    IF words_sorted = <<>> THEN <<current_row>>
    ELSE LET word == Head(words_sorted) IN
         IF 10 * (word.top - current_top) > threshold10
           THEN <<current_row>>
                \o GroupRows(Tail(words_sorted), <<word>>, word.top, threshold10)
           ELSE GroupRows(Tail(words_sorted), Append(current_row, word), current_top,
                          threshold10)

\* The loop `for word in row_words` of _flush_row with its final flush: the word
\* lists of the row's cells.
RECURSIVE GroupCells(_, _, _, _)
GroupCells(row_words, cell_words, prev_x1, gap_threshold10) ==
    IF row_words = <<>> THEN (IF cell_words = <<>> THEN <<>> ELSE <<cell_words>>)
    ELSE LET word == Head(row_words) IN
         IF prev_x1 # <<>> /\ 10 * (word.x0 - prev_x1[1]) > gap_threshold10
           THEN <<cell_words>>
                \o GroupCells(Tail(row_words), <<word>>, <<word.x1>>, gap_threshold10)
           ELSE GroupCells(Tail(row_words), Append(cell_words, word), <<word.x1>>,
                           gap_threshold10)

CellText(cell_words) == JoinSpace([i \in 1..Len(cell_words) |-> cell_words[i].text])

CellBBox(cell_words) ==
    [x0 |-> SeqMin([i \in 1..Len(cell_words) |-> cell_words[i].x0]),
     x1 |-> SeqMax([i \in 1..Len(cell_words) |-> cell_words[i].x1]),
     top |-> SeqMin([i \in 1..Len(cell_words) |-> cell_words[i].top]),
     bottom |-> SeqMax([i \in 1..Len(cell_words) |-> cell_words[i].bottom])]

\* The cells of a row already sorted by x0.
GroupSortedRow(row_sorted) == GroupCells(row_sorted, <<>>, <<>>, GapThreshold10(row_sorted))

\* (mutant) the row's words are not sorted by x0 before they are grouped
RowCells_unsorted(row_words) ==
    GroupCells(row_words, <<>>, <<>>, GapThreshold10(SortedBy(row_words, "x0")))

\* The word lists of the cells of one row: _flush_row's sort and grouping.
RowCells(row_words) == GroupSortedRow(SortedBy(row_words, "x0"))

\* The texts and colours _flush_row appends for the cells of a row.
FlushCells(image, cells) ==
    [cells |-> [i \in 1..Len(cells) |-> CellText(cells[i])],
     colors |-> [i \in 1..Len(cells) |-> _estimate_highlight_color(image, CellBBox(cells[i]))]]

\* _flush_row(row_words) for a non-empty row: [cells, colors].
_flush_row(image, row_words) == FlushCells(image, RowCells(row_words))

\* The rows of a word list already sorted by top.
GroupSortedWords(words_sorted, threshold10) ==
    GroupRows(words_sorted, <<>>, words_sorted[1].top, threshold10)

\* The word lists of the rows of a non-empty word list.
WordRows(words) == GroupSortedWords(SortedBy(words, "top"), RowThreshold10(words))

\* "Normalize column counts": every row padded to max_cols.
PadRows(flushed, max_cols) ==
    << [i \in 1..Len(flushed) |->
            flushed[i].cells \o Repeat("", max_cols - Len(flushed[i].cells))],
       [i \in 1..Len(flushed) |->
            flushed[i].colors \o Repeat(None, max_cols - Len(flushed[i].cells))] >>

NormalizeRows(flushed) ==
    PadRows(flushed, SeqMax([i \in 1..Len(flushed) |-> Len(flushed[i].cells)]))

FlushRows(image, groups) == [i \in 1..Len(groups) |-> _flush_row(image, groups[i])]

\* The reconstruction from the retained words on.
Reconstruct(image, words) ==
    IF words = <<>> THEN << <<>>, <<>> >>
    ELSE NormalizeRows(FlushRows(image, WordRows(words)))

\* _ocr_rows_and_highlights(image): image is <<>> for None; tess is what
\* pytesseract.image_to_data does on it, [raises, data].  Returns <<rows, highlights>>.
_ocr_rows_and_highlights(flags, image, tess) ==
    IF ~(flags[1] /\ flags[2]) \/ image = <<>> THEN << <<>>, <<>> >>
    ELSE IF tess.raises THEN << <<>>, <<>> >>
    ELSE Reconstruct(image[1], RetainedWords(tess.data))

\* ------------------------------------------------ page-level detection selection
\* A page is [tables, rects, annots, chars, objects_chars, render, tess]: tables
\* is what page.find_tables() returns, render what page.to_image() gives (<<>>
\* when it raises, else <<image>>), tess what Tesseract does on that image.

\* _page_has_text(page)
_page_has_text(page) == page.chars # <<>> \/ page.objects_chars # <<>>

\* _to_page_image(page): <<>> for None
_to_page_image(page) == page.render

\* f"page-{page_idx}-ocr-1" and f"page-{page_idx}-table-{table_idx}"
OcrTitle(idx) == "page-" \o ToString(idx) \o "-ocr-1"
TableTitle(idx, table_idx) == "page-" \o ToString(idx) \o "-table-" \o ToString(table_idx)

\* (mutant) an empty OCR result is returned as a table
OcrEntry_norowcheck(out, idx) ==
    << [title |-> OcrTitle(idx), rows |-> out[1], highlights |-> out[2]] >>

\* `if not rows: return []`, else the page's one OCR entry
OcrEntry(out, idx) ==
    IF out[1] = <<>> THEN <<>>
    ELSE << [title |-> OcrTitle(idx), rows |-> out[1], highlights |-> out[2]] >>

\* _extract_tables_via_ocr(page, page_idx)
_extract_tables_via_ocr(flags, page, idx) ==
    IF ~(flags[1] /\ flags[2]) THEN <<>>
    ELSE IF _to_page_image(page) = <<>> THEN <<>>
    ELSE OcrEntry(_ocr_rows_and_highlights(flags, _to_page_image(page), page.tess), idx)

\* (mutant) table ordinals count the emitted tables only
RECURSIVE VectorTables_dense(_, _, _, _)
VectorTables_dense(tables, table_idx, page, idx) ==
    IF tables = <<>> THEN <<>>
    ELSE IF Head(tables).data = <<>> THEN VectorTables_dense(Tail(tables), table_idx, page, idx)
    ELSE << [title |-> TableTitle(idx, table_idx), rows |-> Head(tables).data,
             highlights |-> _map_highlights(Head(tables), page)] >>
         \o VectorTables_dense(Tail(tables), table_idx + 1, page, idx)

\* The loop `for table_idx, table in enumerate(tables, start=1)` from table_idx on:
\* the entries it appends.
RECURSIVE VectorTables(_, _, _, _)
VectorTables(tables, table_idx, page, idx) ==
    IF table_idx > Len(tables) THEN <<>>
    ELSE LET table == tables[table_idx]
             data == table.data
         IN (IF data = <<>> THEN <<>>
             ELSE << [title |-> TableTitle(idx, table_idx), rows |-> data,
                      highlights |-> _map_highlights(table, page)] >>)
            \o VectorTables(tables, table_idx + 1, page, idx)

\* (mutant) OCR is tried on every page without tables or without text
NeedsOcr_or(page) == page.tables = <<>> \/ ~_page_has_text(page)

\* `if not tables and not _page_has_text(page)`
NeedsOcr(page) == page.tables = <<>> /\ ~_page_has_text(page)

\* `if ocr_tables: results.extend(ocr_tables); continue`, else the table loop
OcrOrVector(ocr_tables, page, idx) ==
    IF ocr_tables # <<>> THEN ocr_tables ELSE VectorTables(page.tables, 1, page, idx)

\* One iteration of `for page_idx, page in enumerate(pdf.pages, start=1)`: what it
\* adds to results.
PageTables(flags, page, idx) ==
    OcrOrVector(IF NeedsOcr(page) THEN _extract_tables_via_ocr(flags, page, idx) ELSE <<>>,
                page, idx)

\* ---- the call _color_to_hex(color) on its own
Levels == 0..ColorDen
ColorInputs ==
    {<<>>} \cup {<<c>> : c \in SeqsUpTo(Levels, 3)}
           \cup {<<c>> : c \in [1..4 -> {0, ColorDen}]}

InitColor ==
    /\ pc = "call"
    /\ arg \in ColorInputs
    /\ ret = None
    /\ has_ocr = <<TRUE, TRUE>>
    /\ page_idx = 1
    /\ results = <<>>
    /\ visited = <<>>

CallColorToHex ==
    /\ pc = "call"
    /\ ret' = _color_to_hex(arg)
    /\ pc' = "return"
    /\ UNCHANGED <<arg, has_ocr, page_idx, results, visited>>

NextColor == CallColorToHex

SpecColor == InitColor /\ [][NextColor]_vars

\* ---- the call _map_highlights(table, page) on its own
\* The table's cells tile a grid: column c spans x in [XEdge(c-1), XEdge(c)] and
\* row r spans top..bottom in [YEdge(r-1), YEdge(r)].
XEdge(i) == 10 * i
YEdge(j) == 100 + (5 * j)

RowBox(r) == <<XEdge(0), YEdge(r - 1), XEdge(MaxCols), YEdge(r)>>
ColBox(c) == <<XEdge(c - 1), YEdge(0), XEdge(c), YEdge(MaxRows)>>

Entry(kind, v) == [kind |-> kind, v |-> v]

\* The shapes row/column metadata comes in, for n units of an axis.
MetaStyles(n) ==
    {[name |-> s, k |-> 0] :
        s \in {"bbox", "seq", "edges", "edges_desc", "edges_short",
               "missing", "short_seq", "mixed"}}
    \cup {[name |-> "bad", k |-> k] : k \in 1..n}

BoxOf(axis, i) == IF axis = "row" THEN RowBox(i) ELSE ColBox(i)
EdgeOf(axis, i) == IF axis = "row" THEN YEdge(i) ELSE XEdge(i)

Meta(style, n, axis) ==
    CASE style.name = "bbox" -> [i \in 1..n |-> Entry("bbox", BoxOf(axis, i))]
      [] style.name = "seq" -> [i \in 1..n |-> Entry("seq", BoxOf(axis, i))]
      [] style.name = "edges" -> [i \in 1..(n + 1) |-> Entry("num", <<EdgeOf(axis, i - 1)>>)]
      [] style.name = "edges_desc" -> [i \in 1..(n + 1) |-> Entry("num", <<EdgeOf(axis, n + 1 - i)>>)]
      [] style.name = "edges_short" -> [i \in 1..n |-> Entry("num", <<EdgeOf(axis, i - 1)>>)]
      [] style.name = "missing" -> <<>>
      [] style.name = "short_seq" -> [i \in 1..n |-> Entry("seq", SubSeq(BoxOf(axis, i), 1, 3))]
      [] style.name = "mixed" ->
            [i \in 1..n |-> IF i = 1 THEN Entry("num", <<EdgeOf(axis, 0)>>) ELSE Entry("bbox", BoxOf(axis, i))]
      [] style.name = "bad" ->
            [i \in 1..n |-> IF i = style.k THEN Entry("other", <<>>) ELSE Entry("bbox", BoxOf(axis, i))]

RowMeta(style, n) == Meta(style, n, "row")
ColMeta(style, n) == Meta(style, n, "col")

\* Extracted text matrices: 0..MaxRows rows, each of MaxCols - 1 or MaxCols cells
\* (so rows may be jagged).
DataShapes == SeqsUpTo({MaxCols - 1, MaxCols}, MaxRows)
DataOf(shape) == [i \in 1..Len(shape) |-> Repeat("t", shape[i])]
FullGrid == Repeat(MaxCols, MaxRows)

\* The column metadata sits in .columns (pdfplumber >= 0.11) or in .cols (older);
\* a .cols that is present but None hides .columns.
ColAttrs(n) ==
    {[cols |-> <<>>, columns |-> ColMeta(st, n)] : st \in MetaStyles(n)}
    \cup {[cols |-> <<ColMeta(st, n)>>, columns |-> <<>>] :
            st \in {[name |-> "bbox", k |-> 0], [name |-> "edges", k |-> 0]}}
    \cup {[cols |-> << <<>> >>, columns |-> ColMeta([name |-> "bbox", k |-> 0], n)]}

MkTable(shape, rows, ca) ==
    [data |-> DataOf(shape), rows |-> rows, cols |-> ca.cols, columns |-> ca.columns]

TablesRich ==
    {MkTable(shape, RowMeta(st, Len(shape)), ca) :
        shape \in DataShapes, st \in MetaStyles(MaxRows), ca \in ColAttrs(MaxCols)}

PlainCols == [cols |-> <<>>, columns |-> ColMeta([name |-> "bbox", k |-> 0], MaxCols)]
EdgeCols == [cols |-> <<ColMeta([name |-> "edges", k |-> 0], MaxCols)>>, columns |-> <<>>]

TablesBasic ==
    {MkTable(FullGrid, RowMeta([name |-> "bbox", k |-> 0], MaxRows), PlainCols),
     MkTable(FullGrid, RowMeta([name |-> "edges", k |-> 0], MaxRows), EdgeCols),
     MkTable([FullGrid EXCEPT ![1] = MaxCols - 1],
             RowMeta([name |-> "seq", k |-> 0], MaxRows), PlainCols)}

Yellow == <<ColorDen, ColorDen, 0>>
Red == <<ColorDen, 0, 0>>
Green == <<0, ColorDen, 0>>
Blue == <<0, 0, ColorDen>>
Cyan == <<0, ColorDen, ColorDen>>
Gray == <<4>>

MkRect(x0, x1, top, bottom, y0, y1, fill, stroke) ==
    [x0 |-> x0, x1 |-> x1, top |-> top, bottom |-> bottom, y0 |-> y0, y1 |-> y1,
     non_stroking_color |-> fill, stroke_color |-> stroke]

\* A filled rectangle whose box is exactly the box of cell (r, c).
CellRect(r, c, fill) ==
    MkRect(<<XEdge(c - 1)>>, <<XEdge(c)>>, <<YEdge(r - 1)>>, <<YEdge(r)>>, <<>>, <<>>,
           <<fill>>, <<>>)

\* A rectangle over the whole table.
TableRect(fill, stroke) ==
    MkRect(<<XEdge(0)>>, <<XEdge(MaxCols)>>, <<YEdge(0)>>, <<YEdge(MaxRows)>>, <<>>, <<>>,
           fill, stroke)

RectKinds ==
    {CellRect(r, c, Yellow) : r \in 1..MaxRows, c \in 1..MaxCols}
    \cup {TableRect(<<>>, <<Red>>),               \* stroked only
          TableRect(<<Blue, Blue>>, <<Blue>>),     \* a fill colour that does not convert
          TableRect(<<>>, <<>>),                   \* no colour: not collected
          \* no x1: no box
          MkRect(<<XEdge(0)>>, <<>>, <<YEdge(0)>>, <<YEdge(1)>>, <<>>, <<>>, <<Green>>, <<>>),
          \* row 1, given by y1/y0 instead of top/bottom
          MkRect(<<XEdge(0)>>, <<XEdge(MaxCols)>>, <<>>, <<>>, <<YEdge(1)>>, <<YEdge(0)>>,
                 <<Gray>>, <<>>)}

MkAnnot(subtype, x0, x1, top, bottom, y0, y1, color) ==
    [subtype |-> subtype, x0 |-> x0, x1 |-> x1, top |-> top, bottom |-> bottom,
     y0 |-> y0, y1 |-> y1, color |-> color]

AnnotKinds ==
    {\* a highlight over the last column
     MkAnnot("Highlight", <<XEdge(MaxCols - 1)>>, <<XEdge(MaxCols)>>, <<YEdge(0)>>,
             <<YEdge(MaxRows)>>, <<>>, <<>>, <<Cyan>>),
     \* not a highlight
     MkAnnot("Link", <<XEdge(0)>>, <<XEdge(MaxCols)>>, <<YEdge(0)>>, <<YEdge(MaxRows)>>,
             <<>>, <<>>, <<Green>>),
     \* a highlight at the top of the page (top = 0) that carries y1/y0 too
     MkAnnot("HIGHLIGHT", <<XEdge(0)>>, <<XEdge(MaxCols)>>, <<0>>, <<YEdge(1)>>,
             <<YEdge(0)>>, <<YEdge(MaxRows)>>, <<Green>>)}

MkPage(rects, annots) == [rects |-> rects, annots |-> annots]

PagesRich ==
    {MkPage(rs, as) : rs \in SeqsUpTo(RectKinds, MaxRegions), as \in SeqsUpTo(AnnotKinds, 1)}

PagesBasic ==
    {MkPage(<<>>, <<>>),
     MkPage(<<TableRect(<<>>, <<Red>>)>>, <<>>),
     MkPage(<<CellRect(1, 1, Yellow)>>, <<>>),
     MkPage(<<CellRect(1, 1, Yellow), TableRect(<<>>, <<Red>>)>>, <<>>),
     MkPage(<<TableRect(<<Blue, Blue>>, <<Blue>>)>>,
            <<MkAnnot("Highlight", <<XEdge(MaxCols - 1)>>, <<XEdge(MaxCols)>>, <<YEdge(0)>>,
                      <<YEdge(MaxRows)>>, <<>>, <<>>, <<Cyan>>)>>)}

InitMap ==
    /\ pc = "call"
    /\ \/ \E t \in TablesRich, p \in PagesBasic : arg = [table |-> t, page |-> p]
       \/ \E t \in TablesBasic, p \in PagesRich : arg = [table |-> t, page |-> p]
    /\ ret = <<>>
    /\ has_ocr = <<TRUE, TRUE>>
    /\ page_idx = 1
    /\ results = <<>>
    /\ visited = <<>>

CallMapHighlights ==
    /\ pc = "call"
    /\ ret' = _map_highlights(arg.table, arg.page)
    /\ pc' = "return"
    /\ UNCHANGED <<arg, has_ocr, page_idx, results, visited>>

NextMap == CallMapHighlights

SpecMap == InitMap /\ [][NextMap]_vars

\* ---- the call _ocr_rows_and_highlights(image) on its own
\* The page image: 220 x 120 pixels, a light yellow stripe left of x = 35 on white.
PageImage ==
    [width |-> 220, height |-> 120, stripe |-> 35,
     ink |-> <<255, 255, 170>>, paper |-> <<255, 255, 255>>]

\* Word tokens sit at a top of OcrTops and a left of OcrLefts and are 10 wide;
\* a word's text names its position.  Small print is 10 high, large print 50.
OcrTops == <<0, 20, 30, 60>>
OcrLefts == <<0, 30, 200>>

WordToken(top, left, height) ==
    [text |-> "w" \o ToString(top) \o "x" \o ToString(left), conf |-> <<95>>,
     left |-> left, top |-> top, width |-> 10, height |-> height]

\* Tokens that are not words: a blank text, a low confidence, a confidence that
\* does not parse.
BlankToken == [text |-> " ", conf |-> <<95>>, left |-> 0, top |-> 0, width |-> 10, height |-> 10]
NoisyToken == [text |-> "zz", conf |-> <<30>>, left |-> 30, top |-> 20, width |-> 10, height |-> 50]
BadConfToken == [text |-> "zz", conf |-> <<>>, left |-> 30, top |-> 20, width |-> 10, height |-> 50]

\* Small print at every position, large print at three of them, and the noise.
TokenKinds ==
    [i \in 1..(Len(OcrTops) * Len(OcrLefts)) |->
        WordToken(OcrTops[((i - 1) \div Len(OcrLefts)) + 1],
                  OcrLefts[((i - 1) % Len(OcrLefts)) + 1], 10)]
    \o <<WordToken(0, 0, 50), WordToken(30, 30, 50), WordToken(60, 200, 50),
         BlankToken, NoisyToken>>

\* Token lists hold up to MaxWords tokens, in ascending or descending kind order.
IsAscending(ix) == \A i \in 1..(Len(ix) - 1) : ix[i] <= ix[i + 1]
Reversed(s) == [i \in 1..Len(s) |-> s[Len(s) + 1 - i]]
TokensAt(ix) == [i \in 1..Len(ix) |-> TokenKinds[ix[i]]]

Tess(data) == [raises |-> FALSE, data |-> data]
TessRaises == [raises |-> TRUE, data |-> <<>>]

OcrFlags == {<<TRUE, TRUE>>, <<TRUE, FALSE>>, <<FALSE, FALSE>>}

InitOcr ==
    /\ pc = "call"
    /\ \/ /\ has_ocr = <<TRUE, TRUE>>
          /\ \/ \E n \in 0..MaxWords : \E ix \in [1..n -> 1..Len(TokenKinds)] :
                    /\ IsAscending(ix)
                    /\ \/ arg = [image |-> <<PageImage>>, tess |-> Tess(TokensAt(ix))]
                       \/ arg = [image |-> <<PageImage>>, tess |-> Tess(TokensAt(Reversed(ix)))]
             \/ arg = [image |-> <<PageImage>>, tess |-> TessRaises]
             \/ arg = [image |-> <<>>, tess |-> Tess(<<TokenKinds[1]>>)]
       \/ /\ has_ocr \in OcrFlags
          /\ arg = [image |-> <<PageImage>>, tess |-> Tess(<<TokenKinds[1]>>)]
    /\ ret = << <<>>, <<>> >>
    /\ page_idx = 1
    /\ results = <<>>
    /\ visited = <<>>

CallOcrRowsAndHighlights ==
    /\ pc = "call"
    /\ ret' = _ocr_rows_and_highlights(has_ocr, arg.image, arg.tess)
    /\ pc' = "return"
    /\ UNCHANGED <<arg, has_ocr, page_idx, results, visited>>

NextOcr == CallOcrRowsAndHighlights

SpecOcr == InitOcr /\ [][NextOcr]_vars

\* ---- parse_pdf_tables(pdf_bytes) on a document
MkDocPage(tables, rects, chars, objects_chars, render, tess) ==
    [tables |-> tables, rects |-> rects, annots |-> <<>>, chars |-> chars,
     objects_chars |-> objects_chars, render |-> render, tess |-> tess]

GridTable == MkTable(FullGrid, RowMeta([name |-> "bbox", k |-> 0], MaxRows), PlainCols)
JaggedTable ==
    MkTable([FullGrid EXCEPT ![1] = MaxCols - 1],
            RowMeta([name |-> "seq", k |-> 0], MaxRows), PlainCols)
\* a detected table whose extract() is empty
EmptyTable == MkTable(<<>>, <<>>, PlainCols)

\* Two rows of two words; a row of two words over a row of one; noise only.
TwoByTwoWords ==
    <<WordToken(0, 0, 10), WordToken(0, 200, 10), WordToken(30, 0, 10), WordToken(30, 200, 10)>>
JaggedWords == <<WordToken(0, 0, 10), WordToken(0, 200, 10), WordToken(60, 0, 10)>>
NoiseOnly == <<BadConfToken, BlankToken, NoisyToken>>

TableLists ==
    (SeqsUpTo({EmptyTable, GridTable}, MaxTables) \ {<<>>})
    \cup {<<JaggedTable>>, <<GridTable, JaggedTable>>}

DocPages ==
    \* pages with vector tables (and text); one of them without text
    {MkDocPage(ts, <<CellRect(1, 1, Yellow)>>, <<"c">>, <<"c">>, <<PageImage>>,
               Tess(TwoByTwoWords)) : ts \in TableLists}
    \cup {MkDocPage(<<GridTable>>, <<>>, <<>>, <<>>, <<PageImage>>, Tess(TwoByTwoWords))}
    \* pages with text and no tables
    \cup {MkDocPage(<<>>, <<>>, ch, <<"c">>, <<PageImage>>, Tess(TwoByTwoWords)) :
            ch \in {<<>>, <<"c">>}}
    \* image-only pages
    \cup {MkDocPage(<<>>, <<>>, <<>>, <<>>, <<PageImage>>, t) :
            t \in {TessRaises, Tess(<<>>), Tess(NoiseOnly), Tess(TwoByTwoWords),
                   Tess(JaggedWords)}}
    \cup {MkDocPage(<<>>, <<>>, <<>>, <<>>, <<>>, Tess(TwoByTwoWords))}

Init ==
    /\ pc = "loop"
    /\ \E n \in 0..MaxPages : arg \in [1..n -> DocPages]     \* pdf.pages
    /\ ret = <<>>
    /\ has_ocr \in OcrFlags
    /\ page_idx = 1
    /\ results = <<>>
    /\ visited = <<>>

\* One iteration of the page loop; visited records whether it called
\* _extract_tables_via_ocr.
ProcessPage ==
    /\ pc = "loop"
    /\ page_idx <= Len(arg)
    /\ results' = results \o PageTables(has_ocr, arg[page_idx], page_idx)
    /\ visited' = Append(visited, NeedsOcr(arg[page_idx]))
    /\ page_idx' = page_idx + 1
    /\ UNCHANGED <<pc, arg, ret, has_ocr>>

\* The loop has a page left to go through.
AtPage == pc = "loop" /\ page_idx <= Len(arg)

\* the iteration of a page on which find_tables found tables
VectorPage == AtPage /\ arg[page_idx].tables # <<>> /\ ~NeedsOcr(arg[page_idx]) /\ ProcessPage

\* the iteration of a page without tables that has text
TextOnlyPage == AtPage /\ arg[page_idx].tables = <<>> /\ ~NeedsOcr(arg[page_idx]) /\ ProcessPage

\* the iteration of a page that goes to the OCR fallback
OcrFallbackPage == AtPage /\ NeedsOcr(arg[page_idx]) /\ ProcessPage

\* `return results`
ReturnResults ==
    /\ pc = "loop"
    /\ page_idx > Len(arg)
    /\ ret' = results
    /\ pc' = "done"
    /\ UNCHANGED <<arg, has_ocr, page_idx, results, visited>>

Next == VectorPage \/ TextOnlyPage \/ OcrFallbackPage \/ ReturnResults

Spec == Init /\ [][Next]_vars

\* ------------------------------------------------------------------- claims
\* ---- claims about parse_pdf_tables (Spec)
\* The pages the loop has been through.
Visited == 1..Len(visited)

\* Vector detection found tables on page p; page p exposes text glyphs.
Found(p) == arg[p].tables # <<>>
PageHasText(p) == arg[p].chars # <<>> \/ arg[p].objects_chars # <<>>

\* What a title can name: table t of page p, or the OCR table of page p.
TitleKeys ==
    {<<p, "table", t>> : p \in Visited, t \in 1..MaxTables} \cup {<<p, "ocr", 1>> : p \in Visited}
TitleOf(key) ==
    IF key[2] = "table" THEN "page-" \o ToString(key[1]) \o "-table-" \o ToString(key[3])
    ELSE "page-" \o ToString(key[1]) \o "-ocr-1"
NoKey == <<0, "none", 0>>
KeyOf(title, keys) ==
    IF \E k \in keys : TitleOf(k) = title THEN CHOOSE k \in keys : TitleOf(k) = title ELSE NoKey

\* For each entry of the result list, what its title names.
EntryKeys == [i \in 1..Len(results) |-> KeyOf(results[i].title, TitleKeys)]

\* The entries of the result list that carry page p's titles.
VectorEntries(keys, p) == {i \in DOMAIN keys : keys[i][1] = p /\ keys[i][2] = "table"}
OcrEntries(keys, p) == {i \in DOMAIN keys : keys[i][1] = p /\ keys[i][2] = "ocr"}

PageSelection(keys) ==
    \A p \in Visited :
        /\ visited[p] <=> (~Found(p) /\ ~PageHasText(p))
        /\ Found(p) => OcrEntries(keys, p) = {}
        /\ (~Found(p) /\ PageHasText(p)) =>
             (VectorEntries(keys, p) = {} /\ OcrEntries(keys, p) = {})
        /\ ~(VectorEntries(keys, p) # {} /\ OcrEntries(keys, p) # {})

\* C1: on every page, OCR is invoked if and only if vector detection finds no
\* tables and the page has no text; a page with tables emits no OCR table, a
\* page without tables that has text emits nothing, and no page contributes
\* both vector and OCR tables.
C1_PageSelection == PageSelection(EntryKeys)

\* A page with tables and no text, on which OCR would have found words, took
\* the vector path; another page took the OCR path and emitted its table.
C1_VectorNotOcr ==
    /\ pc = "done"
    /\ has_ocr = <<TRUE, TRUE>>
    /\ \E p, q \in Visited :
         /\ Found(p) /\ ~PageHasText(p) /\ ~visited[p]
         /\ arg[p].render # <<>> /\ RetainedWords(arg[p].tess.data) # <<>>
         /\ VectorEntries(EntryKeys, p) # {}
         /\ visited[q] /\ OcrEntries(EntryKeys, q) # {}

\* C2: every emitted table, vector or OCR, has a colour matrix with as many
\* rows as its text matrix and, row by row, as many entries as the text row,
\* jagged text rows included.
C2_ColorsAlignedWithText ==
    \A i \in 1..Len(results) :
        /\ Len(results[i].highlights) = Len(results[i].rows)
        /\ \A r \in 1..Len(results[i].rows) :
             Len(results[i].highlights[r]) = Len(results[i].rows[r])

PageThenTableOrder(keys) ==
    /\ \A i \in DOMAIN keys :
         /\ keys[i] # NoKey
         /\ keys[i][2] = "table" =>
              /\ keys[i][3] <= Len(arg[keys[i][1]].tables)
              /\ results[i].rows = arg[keys[i][1]].tables[keys[i][3]].data
    /\ \A i, j \in DOMAIN keys :
         i < j => \/ keys[i][1] < keys[j][1]
                  \/ keys[i][1] = keys[j][1] /\ keys[i][3] < keys[j][3]
    /\ \A p \in Visited : Cardinality(OcrEntries(keys, p)) <= 1

\* C4: every entry is titled page-<p>-table-<t> after the t-th table (1-based)
\* of page p, whose text matrix it carries, or page-<p>-ocr-1; entries are in
\* page order and, within a page, in table order; a page has at most one OCR
\* entry.
C4_PageThenTableOrder == PageThenTableOrder(EntryKeys)

\* Two tables of page 1, the second after a table that extracted to nothing,
\* then the OCR table of page 2.
C4_TwoPagesInOrder ==
    /\ pc = "done"
    /\ Len(ret) = 2
    /\ Len(arg[1].tables) = 2
    /\ ret[1].title = "page-1-table-2"
    /\ ret[2].title = "page-2-ocr-1"

\* OCR cannot give page p a table: the engine is missing or not functional,
\* the page does not render, or recognition yields no rows.
OcrYieldsNothing(p) ==
    \/ ~(has_ocr[1] /\ has_ocr[2])
    \/ arg[p].render = <<>>
    \/ arg[p].tess.raises
    \/ RetainedWords(arg[p].tess.data) = <<>>

NonEmptyTables(p) == {t \in 1..Len(arg[p].tables) : arg[p].tables[t].data # <<>>}

FailedOcrPageContributesNothing(keys) ==
    \A p \in Visited :
        (~Found(p) /\ ~PageHasText(p) /\ OcrYieldsNothing(p)) =>
            /\ VectorEntries(keys, p) = {} /\ OcrEntries(keys, p) = {}
            /\ page_idx = Len(visited) + 1
            /\ \A i \in DOMAIN keys : keys[i] # NoKey /\ keys[i][1] # p
            /\ \A q \in Visited :
                 Found(q) =>
                    Cardinality(VectorEntries(keys, q)) = Cardinality(NonEmptyTables(q))

\* C5: a page without vector tables and without text for which OCR is
\* unavailable, rendering fails or OCR yields no rows contributes no table, and
\* processing goes on: the loop moves to the next page, every entry of the
\* result list belongs to another page, and the pages with tables have all of
\* theirs in it.
C5_FailedOcrPageContributesNothing == FailedOcrPageContributesNothing(EntryKeys)

\* An image-only page Tesseract fails on, followed by a page whose table is returned.
C5_LaterPageStillEmitted ==
    /\ pc = "done"
    /\ has_ocr = <<TRUE, TRUE>>
    /\ Len(arg) = 2
    /\ ~Found(1) /\ ~PageHasText(1) /\ visited[1] /\ arg[1].tess.raises
    /\ Len(ret) = 1
    /\ ret[1].title = "page-2-table-1"

\* ---- claims about _map_highlights (SpecMap)
MinOf(S) == CHOOSE i \in S : \A j \in S : i <= j

RegionColor(region) == _color_to_hex(OrColor(region.non_stroking_color, region.stroke_color))

\* The candidate regions of a page in the order the claim gives them: its
\* rectangles in page order, then its highlight annotations in page order (a
\* region without a colour is among them, and matches no cell).
C3_Regions(pg) ==
    LET as == SelectSeq(pg.annots, LAMBDA a : a.subtype \in {"highlight", "Highlight", "HIGHLIGHT"})
    IN pg.rects \o [i \in 1..Len(as) |-> AnnotRect(as[i])]

\* The indexes of the regions that can colour a cell: colour resolved, box
\* normalised, box overlapping the cell's.
Matching(cell_box, regions) ==
    {i \in 1..Len(regions) :
        /\ RegionColor(regions[i]) # None
        /\ _normalize_box(regions[i]) # <<>>
        /\ _boxes_overlap(cell_box, _normalize_box(regions[i])[1])}

FirstMatchColor(cell_box, regions) ==
    IF Matching(cell_box, regions) = {} THEN None
    ELSE RegionColor(regions[MinOf(Matching(cell_box, regions))])

CellBox(rb, cb) == [x0 |-> cb[1][1], x1 |-> cb[1][2], top |-> rb[1][1], bottom |-> rb[1][2]]

\* C3: in _map_highlights, every cell whose row and column extents resolve gets
\* the colour of the first candidate region (rectangles first, then highlight
\* annotations, each in page order) whose colour resolves and whose normalised
\* box overlaps the cell; later overlapping regions never override it, and a cell
\* no such region overlaps stays None.
C3_FirstRegionWins ==
    (pc = "return" /\ arg.table.data # <<>>) =>
        \A r \in 1..Len(arg.table.data) : \A c \in 1..Len(arg.table.data[r]) :
            LET rb == _row_bounds(TableRows(arg.table), r)
                cb == _col_bounds(TableCols(arg.table), c)
            IN (rb # <<>> /\ cb # <<>>) =>
                 ret[r][c] = FirstMatchColor(CellBox(rb, cb), C3_Regions(arg.page))

\* A cell two regions of different colours can colour; it has the first one's.
C3_TwoRegionsOneCell ==
    /\ pc = "return"
    /\ arg.table.data # <<>>
    /\ \E r \in 1..Len(arg.table.data) : \E c \in 1..Len(arg.table.data[r]) :
         LET rb == _row_bounds(TableRows(arg.table), r)
             cb == _col_bounds(TableCols(arg.table), c)
             regions == C3_Regions(arg.page)
         IN /\ rb # <<>> /\ cb # <<>>
            /\ \E i, j \in Matching(CellBox(rb, cb), regions) :
                 /\ i < j
                 /\ i = MinOf(Matching(CellBox(rb, cb), regions))
                 /\ RegionColor(regions[i]) # RegionColor(regions[j])
                 /\ ret[r][c] = RegionColor(regions[i])

\* The extent of unit idx of an axis as the metadata shapes define it: an
\* object's box, a 4-element sequence, or a numeric boundary paired with the
\* next one (in ascending order); <<>> when it does not resolve.  lo, hi are
\* the positions of the extent in a box: 2, 4 for a row, 1, 3 for a column.
Extent(meta, idx, lo, hi) ==
    IF idx \notin DOMAIN meta THEN <<>>
    ELSE CASE meta[idx].kind = "bbox" -> << <<meta[idx].v[lo], meta[idx].v[hi]>> >>
           [] meta[idx].kind = "seq" /\ Len(meta[idx].v) = 4 ->
                << <<meta[idx].v[lo], meta[idx].v[hi]>> >>
           [] meta[idx].kind = "num" /\ (idx + 1) \in DOMAIN meta
                /\ meta[idx + 1].kind = "num" ->
                << <<Min2(meta[idx].v[1], meta[idx + 1].v[1]),
                     Max2(meta[idx].v[1], meta[idx + 1].v[1])>> >>
           [] OTHER -> <<>>

RowExtent(t, r) == Extent(TableRows(t), r, 2, 4)
ColExtent(t, c) == Extent(TableCols(t), c, 1, 3)

TilesGrid(t) ==
    /\ t.data # <<>>
    /\ \A r \in 1..Len(t.data) : Len(t.data[r]) = MaxRowLen(t.data) /\ RowExtent(t, r) # <<>>
    /\ MaxRowLen(t.data) >= 1
    /\ \A c \in 1..MaxRowLen(t.data) : ColExtent(t, c) # <<>>
    /\ \A r \in 1..Len(t.data) : RowExtent(t, r)[1][1] < RowExtent(t, r)[1][2]
    /\ \A c \in 1..MaxRowLen(t.data) : ColExtent(t, c)[1][1] < ColExtent(t, c)[1][2]
    /\ \A r1, r2 \in 1..Len(t.data) :
         r1 # r2 => \/ RowExtent(t, r1)[1][2] <= RowExtent(t, r2)[1][1]
                    \/ RowExtent(t, r2)[1][2] <= RowExtent(t, r1)[1][1]
    /\ \A c1, c2 \in 1..MaxRowLen(t.data) :
         c1 # c2 => \/ ColExtent(t, c1)[1][2] <= ColExtent(t, c2)[1][1]
                    \/ ColExtent(t, c2)[1][2] <= ColExtent(t, c1)[1][1]

\* The page's only region is one coloured rectangle whose box is cell (r, c)'s.
OnlyRectIsCell(t, pg, r, c) ==
    /\ Len(pg.rects) = 1
    /\ pg.annots = <<>>
    /\ OrColor(pg.rects[1].non_stroking_color, pg.rects[1].stroke_color) # <<>>
    /\ _normalize_box(pg.rects[1]) = <<CellBox(RowExtent(t, r), ColExtent(t, c))>>

\* C8: for a table whose cells tile a grid and a page whose single coloured
\* rectangle coincides with one cell's box, _map_highlights gives that cell the
\* rectangle's encoded colour and leaves every other cell None (cells that only
\* touch the rectangle are not coloured).
C8_OnlyCoveredCell ==
    (pc = "return" /\ TilesGrid(arg.table)) =>
        \A r \in 1..Len(arg.table.data) : \A c \in 1..MaxRowLen(arg.table.data) :
            OnlyRectIsCell(arg.table, arg.page, r, c) =>
                \A r2 \in 1..Len(arg.table.data) : \A c2 \in 1..MaxRowLen(arg.table.data) :
                    ret[r2][c2] = IF r2 = r /\ c2 = c THEN RegionColor(arg.page.rects[1])
                                  ELSE None

\* A grid of at least 2 x 2 cells, one of them covered and coloured.
C8_CoveredCellColored ==
    /\ pc = "return"
    /\ TilesGrid(arg.table)
    /\ Len(arg.table.data) >= 2 /\ MaxRowLen(arg.table.data) >= 2
    /\ \E r \in 1..Len(arg.table.data) : \E c \in 1..MaxRowLen(arg.table.data) :
         /\ OnlyRectIsCell(arg.table, arg.page, r, c)
         /\ ret[r][c] = "FFFFFF00"

\* The highlight-type annotations of a page, in order.
IsHighlight(annot) == annot.subtype \in {"Highlight", "HIGHLIGHT", "highlight"}
HighlightsOf(pg) == SelectSeq(pg.annots, IsHighlight)

\* The regions collected for the highlight annotations: the last ones collected.
AnnotRegions(regions, n) == SubSeq(regions, Len(regions) - n + 1, Len(regions))

\* An annotation field when it is present, whatever its value, else the fallback.
OwnOr(own, fallback) == IF own # <<>> THEN own ELSE fallback

RegionOfAnnotation(region, annot) ==
    /\ region.x0 = annot.x0 /\ region.x1 = annot.x1
    /\ region.top = OwnOr(annot.top, annot.y1)
    /\ region.bottom = OwnOr(annot.bottom, annot.y0)
    /\ (region.x0 = <<>> \/ region.x1 = <<>> \/ region.top = <<>> \/ region.bottom = <<>>)
         => _normalize_box(region) = <<>>

RegionsOfAnnotations(regions, annots) ==
    /\ Len(regions) >= Len(annots)
    /\ \A i \in 1..Len(annots) :
         RegionOfAnnotation(AnnotRegions(regions, Len(annots))[i], annots[i])

\* C12: each highlight-type annotation contributes a region whose top and
\* bottom are the annotation's own top and bottom whenever those are present,
\* 0 included, and y1 and y0 only when they are absent; a region that lacks one
\* of its four coordinates normalizes to no box.
C12_AnnotationOwnTopBottom ==
    pc = "return" =>
        RegionsOfAnnotations(_rectangles_with_color(arg.page), HighlightsOf(arg.page))

\* ---- claims about _ocr_rows_and_highlights (SpecOcr)
\* The call ran the reconstruction: OCR is available, the page rendered,
\* Tesseract answered and some word was retained.
OcrRan ==
    /\ pc = "return"
    /\ has_ocr = <<TRUE, TRUE>>
    /\ arg.image # <<>>
    /\ ~arg.tess.raises
    /\ RetainedWords(arg.tess.data) # <<>>

RECURSIVE Flatten(_)
Flatten(ss) == IF ss = <<>> THEN <<>> ELSE Head(ss) \o Flatten(Tail(ss))

Count(s, v) == Cardinality({i \in 1..Len(s) : s[i] = v})

\* The retained words in ascending order of top (ties in list order).
WordsByTop == SortedBy(RetainedWords(arg.tess.data), "top")

\* Ten times rowThreshold = max(25, 0.8 * median word height).
C10_Threshold10 ==
    LET heights == [i \in 1..Len(WordsByTop) |-> WordsByTop[i].bottom - WordsByTop[i].top]
    IN IF 4 * Median2(heights) > 250 THEN 4 * Median2(heights) ELSE 250

\* rows, with flat their concatenation, group words by threshold thr10 / 10 on
\* the first word of each row.
RowsAnchoredOnFirstWord(words, rows, flat, thr10) ==
    /\ Len(flat) = Len(words)
    /\ \A i \in 1..Len(words) : Count(flat, words[i]) = Count(words, words[i])
    /\ \A i \in 1..(Len(words) - 1) : flat[i].top <= flat[i + 1].top
    /\ \A k \in 1..Len(rows) :
         /\ rows[k] # <<>>
         /\ \A i \in 1..Len(rows[k]) : 10 * (rows[k][i].top - rows[k][1].top) <= thr10
    /\ \A k \in 1..(Len(rows) - 1) : 10 * (rows[k + 1][1].top - rows[k][1].top) > thr10

\* Row k of the returned text matrix holds the cell texts of the k-th group.
RowTexts(row, cells) == \A c \in 1..Len(cells) : row[c] = CellText(cells[c])
RowsReturned(rows) ==
    /\ Len(ret[1]) = Len(rows)
    /\ \A k \in 1..Len(rows) : RowTexts(ret[1][k], RowCells(rows[k]))

\* C10: row grouping walks the retained words in ascending order of top and
\* starts a new row exactly when a word's top exceeds the top of the current
\* row's FIRST word by more than rowThreshold = max(25, 0.8 * median height):
\* the rows, one after the other, are the retained words in ascending order of
\* top (every word in exactly one row, rows top to bottom); every word of a row
\* has a top within rowThreshold of the row's first word; the first word of each
\* later row is more than rowThreshold below the first word of the row before
\* it; and the returned matrix has one row per group, holding its cells' texts.
C10_RowsAnchoredOnFirstWord ==
    OcrRan =>
        /\ RowsAnchoredOnFirstWord(RetainedWords(arg.tess.data),
                                   WordRows(RetainedWords(arg.tess.data)),
                                   Flatten(WordRows(RetainedWords(arg.tess.data))),
                                   C10_Threshold10)
        /\ RowsReturned(WordRows(RetainedWords(arg.tess.data)))

RowBreaksOnFirstWord(rows, thr10) ==
    \E k \in 1..(Len(rows) - 1) :
        /\ Len(rows[k]) >= 2
        /\ 10 * (rows[k + 1][1].top - rows[k][Len(rows[k])].top) <= thr10
        /\ 10 * (rows[k + 1][1].top - rows[k][1].top) > thr10
        /\ Len(ret[1]) = Len(rows)

\* A word that starts a row although it is within rowThreshold of the word
\* before it: it is too far below the row's first word.
C10_RowBreaksOnFirstWord ==
    OcrRan /\ RowBreaksOnFirstWord(WordRows(RetainedWords(arg.tess.data)), C10_Threshold10)

\* The gaps between the consecutive words of a row sorted by x0.
GapAfter(row, i) == row[i + 1].x0 - row[i].x1

\* The row sorted by x0 is two column groups, the first of k words: the gap after
\* word k exceeds the row's gapThreshold gap10 / 10 and no other gap does.
SplitsAt(row, k, gap10) ==
    /\ 10 * GapAfter(row, k) > gap10
    /\ \A i \in 1..(Len(row) - 1) : i # k => 10 * GapAfter(row, i) <= gap10
TwoColumnGroups(row, k) == k \in 1..(Len(row) - 1) /\ SplitsAt(row, k, GapThreshold10(row))

\* The words by top are two bands, the first of m words: tops within a band are
\* closer than rowThreshold, tops of different bands further apart.
TwoBands(ws, m, thr10) ==
    /\ m \in 1..(Len(ws) - 1)
    /\ 10 * (ws[m].top - ws[1].top) < thr10
    /\ 10 * (ws[Len(ws)].top - ws[m + 1].top) < thr10
    /\ 10 * (ws[m + 1].top - ws[m].top) > thr10

TwoCells(row, k) ==
    <<CellText(SubSeq(row, 1, k)), CellText(SubSeq(row, k + 1, Len(row)))>>

\* Bands band1 and band2, each sorted by x0: whenever each is two column groups,
\* the result is the 2 x 2 matrix of their texts, with a 2 x 2 colour matrix.
TwoByTwo(band1, band2) ==
    \A k1 \in 1..(Len(band1) - 1) : \A k2 \in 1..(Len(band2) - 1) :
        (TwoColumnGroups(band1, k1) /\ TwoColumnGroups(band2, k2)) =>
            /\ ret[1] = <<TwoCells(band1, k1), TwoCells(band2, k2)>>
            /\ Len(ret[2]) = 2
            /\ Len(ret[2][1]) = 2 /\ Len(ret[2][2]) = 2

TwoBandsTwoColumns(ws, thr10) ==
    \A m \in 1..(Len(ws) - 1) :
        TwoBands(ws, m, thr10) =>
            TwoByTwo(SortedBy(SubSeq(ws, 1, m), "x0"), SortedBy(SubSeq(ws, m + 1, Len(ws)), "x0"))

\* C9: words in two horizontal bands, each band two column groups separated by
\* a gap above that row's gapThreshold, reconstruct to a 2 x 2 text matrix whose
\* entry [r][c] is the text of the words of band r (top to bottom) and column
\* group c (left to right), with a 2 x 2 colour matrix.
C9_TwoBandsTwoColumns == OcrRan => TwoBandsTwoColumns(WordsByTop, C10_Threshold10)

TwoByTwoReconstructed(band1, band2) ==
    /\ \E k1 \in 1..(Len(band1) - 1) : TwoColumnGroups(band1, k1)
    /\ \E k2 \in 1..(Len(band2) - 1) : TwoColumnGroups(band2, k2)
    /\ band1[1].top # band1[2].top
    /\ Len(ret[1]) = 2 /\ Len(ret[1][1]) = 2 /\ Len(ret[1][2]) = 2
    /\ ret[1][1][1] # ret[1][1][2] /\ ret[1][2][1] # ret[1][2][2]

TwoBandsReconstructed(ws, thr10) ==
    \E m \in 1..(Len(ws) - 1) :
        /\ TwoBands(ws, m, thr10)
        /\ TwoByTwoReconstructed(SortedBy(SubSeq(ws, 1, m), "x0"),
                                 SortedBy(SubSeq(ws, m + 1, Len(ws)), "x0"))

\* Two bands of two column groups each, with tops that differ inside a band.
C9_TwoByTwoReconstructed == OcrRan /\ TwoBandsReconstructed(WordsByTop, C10_Threshold10)

\* Ten times gapThreshold = max(18, min(120, 0.8 * medianGap)) of a row sorted
\* by left coordinate: medianGap is the median of the gaps between consecutive
\* words, 25 when the row has fewer than two words.
MedianGap2(row) ==
    IF Len(row) < 2 THEN 50 ELSE Median2([i \in 1..(Len(row) - 1) |-> GapAfter(row, i)])
ClampGap10(m2) == IF 4 * m2 < 180 THEN 180 ELSE IF 4 * m2 > 1200 THEN 1200 ELSE 4 * m2
C11_GapThreshold10(row) == ClampGap10(MedianGap2(row))

\* The positions of a sorted row at which a cell starts: the first word, and
\* every word whose gap to the word before it exceeds gap10 / 10.
CellStarts(row, gap10) ==
    {1} \cup {i + 1 : i \in {j \in 1..(Len(row) - 1) : 10 * GapAfter(row, j) > gap10}}
NthStart(starts, c) == CHOOSE st \in starts : Cardinality({t \in starts : t <= st}) = c
CellEnd(row, starts, c) ==
    IF c = Cardinality(starts) THEN Len(row) ELSE NthStart(starts, c + 1) - 1
CellsFrom(row, starts) ==
    [c \in 1..Cardinality(starts) |-> SubSeq(row, NthStart(starts, c), CellEnd(row, starts, c))]

\* The words' texts joined by single spaces, in order.
RECURSIVE JoinedText(_)
JoinedText(ws) ==
    IF Len(ws) = 1 THEN ws[1].text ELSE ws[1].text \o " " \o JoinedText(Tail(ws))

\* A returned row holds the texts of the cells, in order, then only padding;
\* the cells, one after the other, are the sorted row.
RowHoldsCells(row_out, cells, sorted) ==
    /\ Len(cells) <= Len(row_out)
    /\ \A c \in 1..Len(cells) : row_out[c] = JoinedText(cells[c])
    /\ \A c \in (Len(cells) + 1)..Len(row_out) : row_out[c] = ""
    /\ Flatten(cells) = sorted

CellsOfSortedRow(row_out, sorted) ==
    RowHoldsCells(row_out, CellsFrom(sorted, CellStarts(sorted, C11_GapThreshold10(sorted))), sorted)

CellsSplitOnGaps(rows) ==
    /\ Len(ret[1]) = Len(rows)
    /\ \A k \in 1..Len(rows) : CellsOfSortedRow(ret[1][k], SortedBy(rows[k], "x0"))

\* C11: within one OCR row the words are sorted by left coordinate and a new
\* cell starts exactly when the gap between the previous word's right edge and
\* the word's left edge exceeds gapThreshold = max(18, min(120, 0.8 * medianGap)),
\* medianGap being the median of the row's consecutive gaps (25 for a row of
\* fewer than two words); each cell's text is its words joined by single spaces
\* from left to right, and every word of the row is in exactly one cell.
C11_CellsSplitOnGaps == OcrRan => CellsSplitOnGaps(WordRows(RetainedWords(arg.tess.data)))

ThreeWordsTwoCells(row_out, row, sorted) ==
    /\ Len(sorted) = 3
    /\ row # sorted
    /\ 10 * GapAfter(sorted, 1) <= C11_GapThreshold10(sorted)
    /\ 10 * GapAfter(sorted, 2) > C11_GapThreshold10(sorted)
    /\ row_out[1] = sorted[1].text \o " " \o sorted[2].text
    /\ row_out[2] = sorted[3].text

SomeRowRegrouped(rows) ==
    \E k \in 1..Len(rows) : ThreeWordsTwoCells(ret[1][k], rows[k], SortedBy(rows[k], "x0"))

\* A row of three words that arrive out of left-to-right order: the two on the
\* left share a cell, the one on the right has its own.
C11_TwoWordsShareACell == OcrRan /\ SomeRowRegrouped(WordRows(RetainedWords(arg.tess.data)))

\* ---- claims about _color_to_hex (SpecColor)
\* C7: for a 1-element gray or 3-element RGB colour with components in [0,1],
\* _color_to_hex returns FFrrggbb with every channel round(component * 255) in
\* uppercase hex (gray replicated to R = G = B); for empty or null input it
\* returns None.  (round: the only exact half among the modelled components is
\* 127.5, which rounds to 128 half-up and half-to-even alike.)
Round255(n) == ((2 * n * 255) + ColorDen) \div (2 * ColorDen)
C7_RoundedChannels ==
    pc = "return" =>
        IF arg = <<>> \/ arg[1] = <<>> THEN ret = None
        ELSE LET c == arg[1] IN
             /\ Len(c) = 1 =>
                  ret = FormatARGB(Round255(c[1]), Round255(c[1]), Round255(c[1]))
             /\ Len(c) = 3 =>
                  ret = FormatARGB(Round255(c[1]), Round255(c[2]), Round255(c[3]))

\* The part of C7 the code does satisfy: the documented end points and the null cases.
C7_EndPoints ==
    pc = "return" =>
        /\ arg \in {<<>>, << <<>> >>} => ret = None
        /\ arg = << <<0, 0, 0>> >> => ret = "FF000000"
        /\ arg = << <<ColorDen, ColorDen, ColorDen>> >> => ret = "FFFFFFFF"

\* colorToHex([0.5]) as the code computes it.
C7_HalfGray == pc = "return" /\ arg = << <<4>> >> /\ ret = "FF7F7F7F"
====
